---- MODULE Spec2Model ----
(***************************************************************************)
(* Model of the Electron main-process launcher in src/preload.js.          *)
(*                                                                         *)
(* The file holds two variants of the launcher: lines 12-310 gate startup  *)
(* on an Azure CLI login, lines 312-533 start the stack without the gate.  *)
(* The variable `gate` says which variant runs.  Every action is one       *)
(* event-loop callback of the program, run to completion (JavaScript is    *)
(* single threaded), followed by the continuation of the startup handler   *)
(* when the callback settles the promise the handler awaits.               *)
(***************************************************************************)
EXTENDS Integers, Sequences, FiniteSets

\* ------------------------------------------------------------------ bounds
MaxTeardowns == 2        \* quit requests and crashes from outside in a session
MaxAttemptTicks == 1     \* an attempt ends after 0..n socket timeouts
MaxTimeoutTicks == 4     \* timeouts tried by the stand-alone probe
MaxDrift == 2            \* ms the poll schedule may lag behind its 500 ms grid

\* ------------------------------------------------------- program constants
DEFAULT_TIMEOUT == 60000 \* waitForMySQL(port = 3306, timeout = 60000)
SOCKET_TIMEOUT == 1000   \* socket.setTimeout(1000)
POLL_INTERVAL == 500     \* setTimeout(probe, 500)
NULL == 0                \* JavaScript null / undefined (falsy)
PROC == 1                \* a ChildProcess / BrowserWindow object
API_PID == 4242          \* the pid the OS gave the API process

VARIABLES
  gate,          \* TRUE: variant with the login gate (lines 12-310)
  pc,            \* position of the app.whenReady handler
  alive,         \* the Electron process has not exited
  quitting,      \* app.quit() ran its before-quit listeners
  checks,        \* results of the checkAzureLogin() calls, in order
  loginState,    \* loginAzure: none/exec/verifyTimer/resolved/rejected
  loginResult,   \* value loginAzure resolved with
  cmds,          \* external commands / effects issued, in order
  mainWindow, apiProcess, apiProcessPid, mysqlProcess,
  teardowns,     \* number of teardowns (killApi; killMySQL) run
  raised,        \* a teardown let an error escape to its caller
  killFailed,    \* some taskkill command exited with an error
  promise,       \* waitForMySQL promise: none/pending/resolved/rejected
  timeout,       \* timeout argument of waitForMySQL
  clock,         \* Date.now(), kept while the process lives and waits
  start,         \* const start = Date.now()
  sockets,       \* connection attempts in flight
  sockStart,     \* time the attempt in flight began (0 when none is)
  sockIdle,      \* the socket in flight has fired its 'timeout' event
  timers,        \* retry timers scheduled
  resolveCalls, rejectCalls,
  refused,       \* the port has refused an attempt of this wait
  markerSeen,    \* what fs.existsSync(MYSQL_SYSTEM_DB) returned
  mysqlErr,      \* 'error' event of the mysqld child: none/pending/logged
  apiErr         \* 'error' event of the api child: none/pending/thrown

vars == << gate, pc, alive, quitting, checks, loginState, loginResult, cmds,
           mainWindow, apiProcess, apiProcessPid, mysqlProcess,
           teardowns, raised, killFailed,
           promise, timeout, clock, start, sockets, sockStart, sockIdle,
           timers, resolveCalls, rejectCalls, refused, markerSeen, mysqlErr,
           apiErr >>

procVars == << mainWindow, apiProcess, apiProcessPid, mysqlProcess >>
killVars == << teardowns, raised, killFailed >>
loginVars == << checks, loginState, loginResult >>
spawnVars == << mysqlErr, apiErr >>
probeVars == << promise, timeout, clock, start, sockets, sockStart, sockIdle,
                timers, resolveCalls, rejectCalls, refused >>

\* ----------------------------------------------------------------- helpers
Falsy(v) == v = NULL

Count(seq, x) == Cardinality({i \in 1..Len(seq) : seq[i] = x})

\* Durations of one connection attempt: the error or the connection comes
\* within the same millisecond, a few milliseconds later, or after the
\* socket has been idle for its timeout.  Timeouts of the stand-alone probe.
AttemptDurations ==
  {0, MaxDrift} \cup {k * SOCKET_TIMEOUT : k \in 1..MaxAttemptTicks}
ProbeTimeouts == {1} \cup {k * POLL_INTERVAL : k \in 1..MaxTimeoutTicks}

\* The part of the state the teardown routines read and write.
Handles ==
  [ pid |-> apiProcessPid, api |-> apiProcess, mysql |-> mysqlProcess,
    cmds |-> cmds, threw |-> FALSE, failed |-> killFailed, n |-> teardowns ]

Apply(H) ==
  /\ apiProcessPid' = H.pid
  /\ apiProcess' = H.api
  /\ mysqlProcess' = H.mysql
  /\ cmds' = H.cmds
  /\ killFailed' = H.failed
  /\ teardowns' = H.n
  /\ raised' = (raised \/ H.threw)

Say(H, c) == [H EXCEPT !.cmds = Append(@, c)]

\* ---------------------------------------------------------------- teardown
\* killApi: guarded by the pid; the taskkill error is caught and dropped.
killApi(H, ok) ==
  IF Falsy(H.pid) THEN H
  ELSE [Say(H, "taskkillApi") EXCEPT
          !.failed = @ \/ ~ok, !.pid = NULL, !.api = NULL]

\* killMySQL without its catch block: a failed taskkill propagates.
killMySQL_NoCatch(H, ok) ==
  [Say(H, "taskkillMySQL") EXCEPT
     !.failed = @ \/ ~ok, !.threw = ~ok,
     !.mysql = IF ok THEN NULL ELSE @]

\* killMySQL: no guard; the taskkill error is caught and logged.
killMySQL(H, ok) ==
  [Say(H, "taskkillMySQL") EXCEPT !.failed = @ \/ ~ok, !.mysql = NULL]

\* The two kills swapped: killMySQL() then killApi().
teardown_MySQLFirst(H, apiOk, myOk) ==
  LET a == killMySQL(H, myOk)
      b == IF a.threw THEN a ELSE killApi(a, apiOk)
  IN  [b EXCEPT !.n = @ + 1]

\* Body shared by the three trigger listeners: killApi() then killMySQL().
\* A throw out of killApi would skip killMySQL.
teardown(H, apiOk, myOk) ==
  LET a == killApi(H, apiOk)
      b == IF a.threw THEN a ELSE killMySQL(a, myOk)
  IN  [b EXCEPT !.n = @ + 1]

\* app.quit(): emits before-quit synchronously unless already quitting.
appQuit(H, apiOk, myOk) ==
  IF quitting THEN Say(H, "app.quit")
  ELSE teardown(Say(Say(H, "app.quit"), "teardown"), apiOk, myOk)

\* ------------------------------------------------------------ waitForMySQL
\* probe(): a new socket starts connecting.
probe ==
  /\ sockets' = sockets + 1
  /\ sockStart' = clock'
  /\ sockIdle' = FALSE

\* waitForMySQL(port, t): new promise, start = Date.now(), first probe().
waitForMySQL(t) ==
  /\ promise' = "pending"
  /\ timeout' = t
  /\ clock' = clock
  /\ start' = clock
  /\ probe
  /\ refused' = FALSE
  /\ UNCHANGED << timers, resolveCalls, rejectCalls >>

\* A promise keeps the first settlement.
Settle(outcome) == promise' = IF promise = "pending" THEN outcome ELSE promise

\* The promise the startup handler awaits has settled: its continuation is
\* the next thing to run (microtask), before any other event.  The 'error'
\* event of a child that could not be started is emitted on the next tick,
\* also before any other event.
MicrotaskPending ==
  \/ pc = "resumeLogin"
  \/ pc = "awaitMySQL" /\ promise \in {"resolved", "rejected"}
  \/ mysqlErr = "pending"
  \/ apiErr = "pending"

Running == alive /\ ~MicrotaskPending

\* An attempt that ends d ms after it began: before the socket's idle
\* timeout when d is below it, after the 'timeout' event otherwise.  The
\* milliseconds the attempts add up to are capped by MaxDrift.
EndsAfter(d) ==
  /\ sockets > 0
  /\ sockIdle = (d >= SOCKET_TIMEOUT)
  /\ sockStart + d >= clock
  /\ (sockStart + d - start) % POLL_INTERVAL <= MaxDrift
  /\ clock' = sockStart + d

\* socket.destroy(): the attempt is over and its socket is gone.
destroy ==
  /\ sockets' = sockets - 1
  /\ sockStart' = 0
  /\ sockIdle' = FALSE

\* A connect listener that resolves but also schedules another probe.
SocketConnect_KeepsPolling(d) ==
  /\ Running
  /\ EndsAfter(d)
  /\ destroy
  /\ resolveCalls' = resolveCalls + 1
  /\ Settle("resolved")
  /\ timers' = timers + 1
  /\ UNCHANGED << timeout, start, rejectCalls, refused >>
  /\ UNCHANGED << gate, pc, alive, quitting, cmds, loginVars, procVars,
                  killVars, markerSeen, spawnVars >>

\* socket.on("connect"): destroy the socket, log, resolve().
SocketConnect(d) ==
  /\ Running
  /\ EndsAfter(d)
  /\ destroy
  /\ resolveCalls' = resolveCalls + 1
  /\ Settle("resolved")
  /\ UNCHANGED << timeout, start, timers, rejectCalls, refused >>
  /\ UNCHANGED << gate, pc, alive, quitting, cmds, loginVars, procVars,
                  killVars, markerSeen, spawnVars >>

\* socket.on("error"): destroy the socket; reject once the elapsed time
\* exceeds the timeout, otherwise schedule the next probe.
SocketError(d) ==
  /\ Running
  /\ EndsAfter(d)
  /\ destroy
  /\ IF clock' - start > timeout
       THEN /\ rejectCalls' = rejectCalls + 1
            /\ Settle("rejected")
            /\ timers' = timers
       ELSE /\ timers' = timers + 1
            /\ UNCHANGED << rejectCalls, promise >>
  /\ refused' = TRUE
  /\ UNCHANGED << timeout, start, resolveCalls >>
  /\ UNCHANGED << gate, pc, alive, quitting, cmds, loginVars, procVars,
                  killVars, markerSeen, spawnVars >>

\* socket.setTimeout(1000) fires 'timeout'; no listener is registered, so
\* the socket is neither destroyed nor reported: the attempt stays in flight.
SocketIdleTimeout ==
  /\ Running
  /\ sockets > 0
  /\ ~sockIdle
  /\ sockIdle' = TRUE
  /\ clock' = sockStart + SOCKET_TIMEOUT
  /\ UNCHANGED << promise, timeout, start, sockets, sockStart, timers,
                  resolveCalls, rejectCalls, refused >>
  /\ UNCHANGED << gate, pc, alive, quitting, cmds, loginVars, procVars,
                  killVars, markerSeen, spawnVars >>

\* setTimeout(probe, 500) fires: probe() again.
RetryTimer ==
  /\ Running
  /\ timers > 0
  /\ timers' = timers - 1
  /\ clock' = clock + POLL_INTERVAL
  /\ probe
  /\ UNCHANGED << promise, timeout, start, resolveCalls, rejectCalls,
                  refused >>
  /\ UNCHANGED << gate, pc, alive, quitting, cmds, loginVars, procVars,
                  killVars, markerSeen, spawnVars >>

\* ----------------------------------------------------------------- startup
\* ensureMySQLInitialized without the existsSync test.
ensureMySQLInitialized_NoMarkerTest(H, markerExists) == Say(H, "init")

\* ensureMySQLInitialized with the existsSync test inverted.
ensureMySQLInitialized_Inverted(H, markerExists) ==
  IF markerExists THEN Say(H, "init") ELSE H

\* ensureMySQLInitialized: the initialization command runs only when the
\* marker path is absent.
ensureMySQLInitialized(H, markerExists) ==
  IF markerExists THEN H ELSE Say(H, "init")

\* startMySQL spawning a second mysqld on top of the first.
startMySQL_SpawnsTwice(H, markerExists) ==
  [Say(Say(ensureMySQLInitialized(H, markerExists), "spawnMySQL"),
       "spawnMySQL") EXCEPT !.mysql = PROC]

\* startMySQL: ensureMySQLInitialized(), then spawn mysqld.
startMySQL(H, markerExists) ==
  [Say(ensureMySQLInitialized(H, markerExists), "spawnMySQL")
     EXCEPT !.mysql = PROC]

\* What child_process.spawn does: the child runs ("ok"), the call returns a
\* child that emits 'error' on the next tick ("error": ENOENT, EACCES, ...),
\* or the call itself throws ("throws": any other errno).
SpawnOutcomes == {"ok", "error", "throws"}

\* The catch block of the startup handler: log the error, app.quit().
CatchBlock(H, apiOk, myOk) ==
  appQuit(Say(H, "ERROR Startup failed"), apiOk, myOk)

\* The failed branch of the gate (lines 271-273): log the error, app.quit().
AuthFailed(H, apiOk, myOk) ==
  appQuit(Say(H, "ERROR Azure login verification failed"), apiOk, myOk)

\* The initialization command ran and exited with an error: execSync throws.
InitThrows(H, markerExists, initOk) ==
  /\ ~initOk
  /\ Count(ensureMySQLInitialized(H, markerExists).cmds, "init")
       > Count(H.cmds, "init")

\* Lines 278-285 up to the first await: startMySQL(); await waitForMySQL();
\* a throw of the initialization command lands in the catch: app.quit().
StartProcesses(H, markerExists, initOk, sp, apiOk, myOk) ==
  /\ markerSeen' = IF markerExists THEN "present" ELSE "absent"
  /\ apiErr' = apiErr
  /\ IF InitThrows(H, markerExists, initOk)
       THEN /\ Apply(CatchBlock(ensureMySQLInitialized(H, markerExists),
                                apiOk, myOk))
            /\ quitting' = TRUE
            /\ pc' = "failed"
            /\ UNCHANGED << probeVars, mysqlErr >>
       ELSE IF sp = "throws"
       THEN /\ Apply(CatchBlock(
                       Say(ensureMySQLInitialized(H, markerExists),
                           "spawnMySQL"), apiOk, myOk))
            /\ quitting' = TRUE
            /\ pc' = "failed"
            /\ UNCHANGED << probeVars, mysqlErr >>
       ELSE /\ Apply(startMySQL(H, markerExists))
            /\ mysqlErr' = IF sp = "error" THEN "pending" ELSE mysqlErr
            /\ waitForMySQL(DEFAULT_TIMEOUT)
            /\ pc' = "awaitMySQL"
            /\ quitting' = quitting

\* mysqlProcess.on("error"): the listener logs the error and nothing else.
MySQLSpawnError ==
  /\ alive
  /\ mysqlErr = "pending"
  /\ mysqlErr' = "logged"
  /\ cmds' = Append(cmds, "ERROR MySQL spawn error")
  /\ UNCHANGED << gate, pc, alive, quitting, loginVars, procVars, killVars,
                  probeVars, markerSeen, apiErr >>

\* loginAzure(): exec of the visible login command; the promise is pending.
\* When exec itself throws (the shell cannot be spawned) the executor of the
\* promise throws: the promise is rejected and the await will throw.
loginAzure(H, execOk) ==
  /\ Apply(Say(H, "login"))
  /\ loginState' = IF execOk THEN "exec" ELSE "rejected"
  /\ pc' = IF execOk THEN "awaitLogin" ELSE "resumeLogin"
  /\ UNCHANGED << loginResult, quitting, probeVars, markerSeen, spawnVars >>

\* The gate with the negation dropped from its condition.
NeedsLogin_NotNegated(c) == c

\* The gate of lines 266-275, first half: skip the login when the check
\* reports logged in.
NeedsLogin(c) == ~c

\* app.whenReady().then(...): first segment of the startup handler.
WhenReady(c, execOk, markerExists, initOk, sp, apiOk, myOk) ==
  /\ alive
  /\ pc = "init"
  /\ IF gate
       THEN /\ checks' = Append(checks, c)
            /\ IF NeedsLogin(c)
                 THEN loginAzure(Handles, execOk)
                 ELSE /\ StartProcesses(Handles, markerExists, initOk,
                                         sp, apiOk, myOk)
                      /\ UNCHANGED << loginState, loginResult >>
       ELSE /\ c   \* no check is made in this variant: the input is unused
            /\ StartProcesses(Handles, markerExists, initOk, sp, apiOk,
                              myOk)
            /\ UNCHANGED loginVars
  /\ UNCHANGED << gate, alive, mainWindow >>

\* An exec callback that takes the error of the command for the outcome.
LoginExecCallback_TrustsExitStatus(error, c) ==
  /\ Running
  /\ loginState = "exec"
  /\ IF error
       THEN /\ c   \* no check is made
            /\ cmds' = Append(cmds, "ERROR Azure login error")
            /\ loginResult' = FALSE
            /\ loginState' = "resolved"
            /\ pc' = "resumeLogin"
            /\ UNCHANGED checks
       ELSE /\ c
            /\ loginState' = "verifyTimer"
            /\ UNCHANGED << cmds, checks, loginResult, pc >>
  /\ UNCHANGED << gate, alive, quitting, procVars, killVars,
                  probeVars, markerSeen, spawnVars >>

\* exec callback of loginAzure.  With an error: checkAzureLogin() at once and
\* resolve with its value.  Without: a 1000 ms timer verifies later.
LoginExecCallback(error, c) ==
  /\ Running
  /\ loginState = "exec"
  /\ IF error
       THEN /\ cmds' = Append(cmds, "ERROR Azure login error")
            /\ checks' = Append(checks, c)
            /\ loginResult' = c
            /\ loginState' = "resolved"
            /\ pc' = "resumeLogin"
       ELSE /\ c   \* no check is made on this path yet: the input is unused
            /\ loginState' = "verifyTimer"
            /\ UNCHANGED << cmds, checks, loginResult, pc >>
  /\ UNCHANGED << gate, alive, quitting, procVars, killVars,
                  probeVars, markerSeen, spawnVars >>

\* The verification timer of loginAzure: checkAzureLogin(), resolve(value).
LoginVerifyTimer(c) ==
  /\ Running
  /\ loginState = "verifyTimer"
  /\ checks' = Append(checks, c)
  /\ cmds' = IF c THEN cmds
             ELSE Append(cmds, "ERROR Azure login verification failed")
  /\ loginResult' = c
  /\ loginState' = "resolved"
  /\ pc' = "resumeLogin"
  /\ UNCHANGED << gate, alive, quitting, procVars, killVars,
                  probeVars, markerSeen, spawnVars >>

\* The gate without the re-check after the login.
LoginConfirmed_NoRecheck(c) == TRUE

\* The gate deciding on the value loginAzure resolved with.
LoginConfirmed_UsesLoginResult(c) == loginResult

\* The gate, second half (line 270): the re-check decides, not the value
\* loginAzure resolved with.
LoginConfirmed(c) == c

\* `await loginAzure()` threw (the promise was rejected): catch, log,
\* app.quit(); no further check is made.
CatchLogin(apiOk, myOk) ==
  /\ alive
  /\ pc = "resumeLogin"
  /\ loginState = "rejected"
  /\ Apply(CatchBlock(Handles, apiOk, myOk))
  /\ quitting' = TRUE
  /\ pc' = "failed"
  /\ UNCHANGED << gate, alive, mainWindow, loginVars, probeVars,
                  markerSeen, spawnVars >>

\* Continuation after `await loginAzure()`.
ResumeAfterLogin(c, markerExists, initOk, sp, apiOk, myOk) ==
  /\ alive
  /\ pc = "resumeLogin"
  /\ loginState = "resolved"
  /\ checks' = Append(checks, c)
  /\ IF LoginConfirmed(c)
       THEN StartProcesses(Handles, markerExists, initOk, sp, apiOk, myOk)
       ELSE /\ Apply(AuthFailed(Handles, apiOk, myOk))
            /\ quitting' = TRUE
            /\ pc' = "failed"
            /\ UNCHANGED << probeVars, markerSeen, spawnVars >>
  /\ UNCHANGED << gate, alive, mainWindow, loginState, loginResult >>

\* startApi: spawn api.exe and remember its pid; a child that could not
\* be started has no pid (undefined).
startApi(H, sp) ==
  [Say(H, "spawnApi") EXCEPT
     !.api = PROC, !.pid = IF sp = "ok" THEN API_PID ELSE NULL]

\* `await waitForMySQL()` has returned or thrown: the wait is over, and the
\* time of its last event is kept no longer.
waited ==
  /\ clock' = start
  /\ UNCHANGED << promise, timeout, start, sockets, sockStart, sockIdle,
                  timers, resolveCalls, rejectCalls, refused >>

\* The handler without the await: it goes on while the probe is running.
MayResume_NoAwait == TRUE

\* The startup handler may go on past `await waitForMySQL()`.
MayResume == promise = "resolved"

\* Continuation after `await waitForMySQL()` resolved: startApi();
\* createWindow().  A throw of spawn lands in the catch block.
ResumeAfterMySQL(sp, apiOk, myOk) ==
  /\ alive
  /\ pc = "awaitMySQL"
  /\ MayResume
  /\ IF sp = "throws"
       THEN /\ Apply(CatchBlock(Say(Handles, "spawnApi"), apiOk, myOk))
            /\ quitting' = TRUE
            /\ pc' = "failed"
            /\ UNCHANGED << mainWindow, apiErr >>
       ELSE /\ Apply(Say(startApi(Handles, sp), "window"))
            /\ apiErr' = IF sp = "error" THEN "pending" ELSE apiErr
            /\ mainWindow' = PROC
            /\ pc' = "ready"
            /\ quitting' = quitting
  /\ waited
  /\ UNCHANGED << gate, alive, loginVars, markerSeen, mysqlErr >>

\* The await threw (waitForMySQL rejected): catch, log, app.quit().
CatchStartup(apiOk, myOk) ==
  /\ alive
  /\ pc = "awaitMySQL"
  /\ promise = "rejected"
  /\ Apply(CatchBlock(Handles, apiOk, myOk))
  /\ quitting' = TRUE
  /\ pc' = "failed"
  /\ waited
  /\ UNCHANGED << gate, alive, mainWindow, loginVars, markerSeen, spawnVars >>

\* ------------------------------------------------------- teardown triggers
\* A listener that logs `line` (when it logs an error) and tears down.
Listener(line, apiOk, myOk) ==
  /\ Apply(teardown(Say(IF line = "" THEN Handles ELSE Say(Handles, line),
                        "teardown"), apiOk, myOk))
  /\ alive' = alive
  /\ UNCHANGED << gate, pc, mainWindow, loginVars, probeVars, markerSeen >>

\* The log line of the two crash listeners (the message is not recorded).
CrashLine == "ERROR Uncaught exception / Unhandled rejection"

\* Teardowns run for an event from outside: not those that app.quit() of the
\* handler ran, nor the one for the 'error' event of the api child.
Triggered ==
  Cardinality({i \in 1..Len(cmds) :
                 cmds[i] = "teardown" /\ (i = 1 \/ cmds[i - 1] # "app.quit")})
    - (IF apiErr = "thrown" THEN 1 ELSE 0)

\* The process ends: its sockets and timers end with it, and time is kept no
\* longer.
exit ==
  /\ alive' = FALSE
  /\ sockets' = 0
  /\ sockStart' = 0
  /\ sockIdle' = FALSE
  /\ timers' = 0
  /\ clock' = start
  /\ UNCHANGED << promise, timeout, start, resolveCalls, rejectCalls,
                  refused >>

\* An event from outside the startup handler; their number is capped.
Trigger(line, apiOk, myOk) ==
  /\ Running
  /\ Triggered < MaxTeardowns
  /\ Listener(line, apiOk, myOk)
  /\ UNCHANGED spawnVars

\* app.on("before-quit"): a quit not requested by the startup handler.  The
\* listener is registered when the module loads, so the event may come
\* before the handler started and while it is suspended in an await.
BeforeQuit(apiOk, myOk) ==
  /\ ~quitting
  /\ Trigger("", apiOk, myOk)
  /\ quitting' = TRUE

\* process.on("uncaughtException").  The listener reads err.message first:
\* when the thrown value is null or undefined (hasMessage false) the listener
\* itself throws before it logs or kills anything, and the process ends.
UncaughtException(hasMessage, apiOk, myOk) ==
  IF hasMessage
    THEN /\ Trigger(CrashLine, apiOk, myOk)
         /\ quitting' = quitting
    ELSE /\ Running
         /\ Triggered < MaxTeardowns
         /\ exit
         /\ UNCHANGED << gate, pc, quitting, cmds, loginVars, procVars,
                         killVars, markerSeen, spawnVars >>

\* process.on("unhandledRejection")
UnhandledRejection(apiOk, myOk) ==
  /\ Trigger(CrashLine, apiOk, myOk)
  /\ quitting' = quitting

\* The api child emits 'error' and nobody listens: the event is thrown and
\* reaches the uncaughtException listener.
ApiSpawnError(apiOk, myOk) ==
  /\ alive
  /\ apiErr = "pending"
  /\ apiErr' = "thrown"
  /\ Listener(CrashLine, apiOk, myOk)
  /\ UNCHANGED << quitting, mysqlErr >>

\* The quit completes: the process is gone and runs no further callback.
ProcessExit ==
  /\ Running
  /\ quitting
  /\ exit
  /\ UNCHANGED << gate, pc, quitting, cmds, loginVars, procVars, killVars,
                  markerSeen, spawnVars >>

\* ----------------------------------------------------------- specification
Init ==
  /\ gate \in BOOLEAN
  /\ pc = "init"
  /\ alive = TRUE
  /\ quitting = FALSE
  /\ checks = << >>
  /\ loginState = "none"
  /\ loginResult = FALSE
  /\ cmds = << >>
  /\ mainWindow = NULL
  /\ apiProcess = NULL
  /\ apiProcessPid = NULL
  /\ mysqlProcess = NULL
  /\ teardowns = 0
  /\ raised = FALSE
  /\ killFailed = FALSE
  /\ promise = "none"
  /\ timeout = 0
  /\ clock = 0
  /\ start = 0
  /\ sockets = 0
  /\ sockStart = 0
  /\ sockIdle = FALSE
  /\ timers = 0
  /\ resolveCalls = 0
  /\ rejectCalls = 0
  /\ refused = FALSE
  /\ markerSeen = "unread"
  /\ mysqlErr = "none"
  /\ apiErr = "none"

\* Outcomes of the API taskkill: killApi runs it only when the pid is set.
ApiKillOutcomes == IF Falsy(apiProcessPid) THEN {TRUE} ELSE BOOLEAN

\* Outcomes of the MySQL taskkill that the catch block leads to: the catch
\* block is entered only when spawn throws.
CatchKillOutcomes(sp) == IF sp = "throws" THEN BOOLEAN ELSE {TRUE}

Next ==
  \/ \E c, x, m, i, b \in BOOLEAN : \E sp \in SpawnOutcomes :
        WhenReady(c, x, m, i, sp, TRUE, b)
  \/ \E e, c \in BOOLEAN : LoginExecCallback(e, c)
  \/ \E c \in BOOLEAN : LoginVerifyTimer(c)
  \/ \E b \in BOOLEAN : CatchLogin(TRUE, b)
  \/ \E c, m, i, b \in BOOLEAN : \E sp \in SpawnOutcomes :
        ResumeAfterLogin(c, m, i, sp, TRUE, b)
  \/ MySQLSpawnError
  \/ \E d \in AttemptDurations : SocketConnect(d)
  \/ \E d \in AttemptDurations : SocketError(d)
  \/ SocketIdleTimeout
  \/ RetryTimer
  \/ \E sp \in SpawnOutcomes : \E b \in CatchKillOutcomes(sp) :
        ResumeAfterMySQL(sp, TRUE, b)
  \/ \E b \in BOOLEAN : ApiSpawnError(TRUE, b)
  \/ \E b \in BOOLEAN : CatchStartup(TRUE, b)
  \/ \E a \in ApiKillOutcomes, b \in BOOLEAN : BeforeQuit(a, b)
  \/ \E a \in ApiKillOutcomes, b \in BOOLEAN : UncaughtException(TRUE, a, b)
  \/ UncaughtException(FALSE, TRUE, TRUE)
  \/ \E a \in ApiKillOutcomes, b \in BOOLEAN : UnhandledRejection(a, b)
  \/ ProcessExit

Spec == Init /\ [][Next]_vars

\* --------------------------------------------------- the probe on its own
\* waitForMySQL called directly, with timeouts other than the default.
CallWaitForMySQL(t) ==
  /\ pc = "standalone"
  /\ promise = "none"
  /\ waitForMySQL(t)
  /\ UNCHANGED << gate, pc, alive, quitting, cmds, loginVars, procVars,
                  killVars, markerSeen, spawnVars >>

InitProbe ==
  /\ gate \in BOOLEAN
  /\ pc = "standalone"
  /\ alive = TRUE
  /\ quitting = FALSE
  /\ checks = << >>
  /\ loginState = "none"
  /\ loginResult = FALSE
  /\ cmds = << >>
  /\ mainWindow = NULL
  /\ apiProcess = NULL
  /\ apiProcessPid = NULL
  /\ mysqlProcess = NULL
  /\ teardowns = 0
  /\ raised = FALSE
  /\ killFailed = FALSE
  /\ promise = "none"
  /\ timeout = 0
  /\ clock = 0
  /\ start = 0
  /\ sockets = 0
  /\ sockStart = 0
  /\ sockIdle = FALSE
  /\ timers = 0
  /\ resolveCalls = 0
  /\ rejectCalls = 0
  /\ refused = FALSE
  /\ markerSeen = "unread"
  /\ mysqlErr = "none"
  /\ apiErr = "none"

NextProbe ==
  \/ \E t \in ProbeTimeouts : CallWaitForMySQL(t)
  \/ \E d \in AttemptDurations : SocketConnect(d)
  \/ \E d \in AttemptDurations : SocketError(d)
  \/ SocketIdleTimeout
  \/ RetryTimer

SpecProbe == InitProbe /\ [][NextProbe]_vars

\* ------------------------------------------------------------------ claims
Kills(c) == Count(cmds, c)

\* Number of entries c among the first i - 1 commands.
Before(i, c) == Cardinality({j \in 1..(i - 1) : cmds[j] = c})

\* C1: over any sequence of teardown triggers in one session, at most one
\* taskkill is issued for the API process and at most one for MySQL.
C1_AtMostOneKillPerProcess ==
  /\ Kills("taskkillApi") <= 1
  /\ Kills("taskkillMySQL") <= 1

\* C2: a teardown never lets an error escape to its caller, also when the
\* taskkill command fails and when the teardown runs a second time.
C2_TeardownNeverRaises == raised = FALSE

C2_Witness == teardowns >= 2 /\ killFailed /\ Kills("taskkillMySQL") = 2

\* C3: within one teardown the API termination comes first: a taskkill of
\* the API directly follows the start of its teardown, and a taskkill of
\* MySQL follows the start of the teardown or the API taskkill of it.
C3_ApiBeforeMySQL ==
  \A i \in 1..Len(cmds) :
    /\ cmds[i] = "taskkillApi" => i > 1 /\ cmds[i - 1] = "teardown"
    /\ cmds[i] = "taskkillMySQL" =>
         i > 1 /\ cmds[i - 1] \in {"teardown", "taskkillApi"}
    /\ cmds[i] = "teardown" /\ i < Len(cmds) =>
         cmds[i + 1] \in {"taskkillApi", "taskkillMySQL"}

C3_Witness ==
  \E i \in 1..Len(cmds) :
    /\ i + 2 <= Len(cmds)
    /\ cmds[i] = "teardown"
    /\ cmds[i + 1] = "taskkillApi"
    /\ cmds[i + 2] = "taskkillMySQL"

\* C4: no termination command is issued for a process that was never spawned
\* or that was already terminated: every taskkill follows a spawn of its
\* process that no earlier taskkill has answered.
C4_NoKillWithoutLiveProcess ==
  \A i \in 1..Len(cmds) :
    /\ cmds[i] = "taskkillMySQL" =>
         Before(i, "spawnMySQL") > Before(i, "taskkillMySQL")
    /\ cmds[i] = "taskkillApi" =>
         Before(i, "spawnApi") > Before(i, "taskkillApi")

\* C5: when the first checkAzureLogin of the session returns true, loginAzure
\* is never invoked.
C5_NoLoginWhenLoggedIn ==
  (Len(checks) >= 1 /\ checks[1]) =>
     Kills("login") = 0 /\ loginState = "none"

C5_Witness == gate /\ checks = << TRUE >> /\ pc = "ready"

\* C6: when the first check is false and the check that follows the
\* interactive login (line 270) is false too, the session is FAILED, app.quit
\* was called, and neither the initialization command, MySQL, the API nor
\* the window was started.
C6_AuthFailureStartsNothing ==
  (Len(checks) = 3 /\ ~checks[1] /\ ~checks[3]) =>
     /\ pc = "failed"
     /\ Kills("app.quit") = 1
     /\ Kills("init") = 0
     /\ Kills("spawnMySQL") = 0
     /\ Kills("spawnApi") = 0
     /\ Kills("window") = 0
     /\ mysqlProcess = NULL /\ apiProcess = NULL /\ mainWindow = NULL

C6_Witness ==
  /\ Len(checks) = 3 /\ ~checks[1] /\ ~checks[3]
  /\ pc = "failed"
  /\ ~alive

\* C7: when the marker path exists as startup reaches the initialization
\* step, the initialization command is not run and MySQL is spawned.
C7_MarkerSkipsInit ==
  markerSeen = "present" =>
     Kills("init") = 0 /\ Kills("spawnMySQL") = 1

C7_Witness == markerSeen = "present" /\ pc = "ready"

\* C8: against a port that never accepts, waitForMySQL rejects only after
\* more than `timeout` has elapsed since the first attempt, and no later than
\* timeout plus one poll interval.
C8_RejectWithinWindow ==
  promise = "rejected" =>
     /\ clock - start > timeout
     /\ clock - start <= timeout + POLL_INTERVAL

\* C9: every connection attempt ends within its sub-timeout: once the
\* socket's timeout has elapsed the attempt is no longer in flight.
C9_AttemptEndsAtSubTimeout == sockIdle => sockets = 0

\* C10: once a connection succeeded waitForMySQL is resolved, no attempt is
\* in flight, no retry timer is scheduled, and reject was never called.
C10_ResolveIsFinal ==
  resolveCalls > 0 =>
     /\ promise = "resolved"
     /\ resolveCalls = 1
     /\ rejectCalls = 0
     /\ sockets = 0
     /\ timers = 0

C10_Witness == promise = "resolved" /\ clock - start >= POLL_INTERVAL

\* C11: the API is spawned only after MySQL was spawned and the probe
\* resolved, the window is created right after the API spawn, and a session
\* whose probe timed out spawns no API and creates no window.
C11_StartupInOrder ==
  /\ \A i \in 1..Len(cmds) :
       /\ cmds[i] = "spawnApi" =>
            Before(i, "spawnMySQL") = 1 /\ promise = "resolved"
       /\ cmds[i] = "window" => i > 1 /\ cmds[i - 1] = "spawnApi"
       /\ cmds[i] = "spawnMySQL" => Before(i, "spawnApi") = 0
  /\ promise = "rejected" => Kills("spawnApi") = 0 /\ Kills("window") = 0
  /\ pc = "ready" <=> mainWindow # NULL

C11_Witness == ~gate /\ pc = "ready" /\ Kills("window") = 1

FatalLines ==
  {"ERROR Startup failed", "ERROR Azure login verification failed"}

StartupSteps == {"login", "init", "spawnMySQL", "spawnApi", "window"}

\* C12: in FAILED the log holds an ERROR line of the fatal error, followed
\* by app.quit, followed by the teardown that app.quit runs; no startup step
\* comes after it.
C12_FatalErrorTearsDown ==
  pc = "failed" =>
     /\ quitting
     /\ Kills("app.quit") = 1
     /\ \E i \in 2..(Len(cmds) - 2) :
          /\ cmds[i] = "app.quit"
          /\ cmds[i - 1] \in FatalLines
          /\ cmds[i + 1] = "teardown"
          /\ cmds[i + 2] \in {"taskkillApi", "taskkillMySQL"}
          /\ \A j \in (i + 1)..Len(cmds) : cmds[j] \notin StartupSteps

\* C13: after the mysqld child emitted 'error' neither the API is spawned
\* nor the window created, whatever the probe finds on the port.
C13_MySQLSpawnErrorFails ==
  mysqlErr = "logged" =>
     Kills("spawnApi") = 0 /\ Kills("window") = 0 /\ pc # "ready"

\* C14: when the API cannot be spawned the session is FAILED, no window is
\* created and the application quits.
C14_ApiSpawnFailureFails ==
  apiErr # "none" =>
     pc = "failed" /\ Kills("window") = 0 /\ mainWindow = NULL /\ quitting

\* C15: at most one MySQL and at most one API process are ever spawned by a
\* session, so no second one exists while the first is live.
C15_AtMostOnePerName ==
  /\ Kills("spawnMySQL") <= 1
  /\ Kills("spawnApi") <= 1

C15_Witness ==
  /\ Kills("spawnMySQL") = 1 /\ Kills("spawnApi") = 1
  /\ Kills("taskkillApi") = 1 /\ Kills("window") = 1

\* C16: marker absent, first login check true, the probe resolved and no
\* spawn failed: the session is READY (or about to resume into it) with
\* exactly one init, one MySQL spawn, one API spawn, one window, no login.
C16_ScenarioA ==
  (/\ markerSeen = "absent"
   /\ Len(checks) >= 1 /\ checks[1]
   /\ promise = "resolved"
   /\ Kills("ERROR Startup failed") = 0) =>
     /\ pc \in {"awaitMySQL", "ready"}
     /\ Kills("init") = 1
     /\ Kills("spawnMySQL") = 1
     /\ Kills("login") = 0
     /\ pc = "ready" => Kills("spawnApi") = 1 /\ Kills("window") = 1

\* The port refused at first and accepted later.
C16_Witness ==
  /\ markerSeen = "absent" /\ checks = << TRUE >>
  /\ pc = "ready" /\ apiErr = "none" /\ mysqlErr = "none"
  /\ refused /\ promise = "resolved"

\* C17 as stated: loginAzure has resolved only after the login command was
\* run and its callback came, and with the value of the check made after that
\* (the second check of the session), on the error path too; and its promise
\* is never rejected.
C17_NeverRejects ==
  /\ loginState = "resolved" =>
        /\ Kills("login") = 1
        /\ Len(checks) >= 2
        /\ loginResult = checks[2]
  /\ loginState # "rejected"

\* C17 amended: loginAzure has resolved only after the login command was run
\* and its callback came, and with the value of the check made after that;
\* its promise is rejected only when exec threw on starting the command, with
\* no login check after the first, and then startup fails and spawns nothing.
C17_LoginResultIsCheck ==
  /\ loginState = "resolved" =>
        /\ Kills("login") = 1
        /\ Len(checks) >= 2
        /\ loginResult = checks[2]
  /\ loginState = "rejected" =>
        /\ Kills("login") = 1
        /\ checks = << FALSE >>
        /\ pc \in {"resumeLogin", "failed"}
        /\ Kills("init") = 0 /\ Kills("spawnMySQL") = 0
        /\ Kills("spawnApi") = 0 /\ Kills("window") = 0

C17_Witness ==
  /\ loginState = "resolved"
  /\ Kills("ERROR Azure login error") = 1
  /\ loginResult

\* C18: right after a teardown returned the three handles are cleared, and
\* after a MySQL spawn error the MySQL handle is cleared.
C18_HandlesCleared ==
  /\ (Len(cmds) > 0 /\ cmds[Len(cmds)] = "taskkillMySQL") =>
        apiProcess = NULL /\ apiProcessPid = NULL /\ mysqlProcess = NULL
  /\ mysqlErr = "logged" => mysqlProcess = NULL

\* C19: no child process is spawned after a teardown has run.
C19_NoSpawnAfterTeardown ==
  \A i \in 1..Len(cmds) :
    cmds[i] \in {"spawnMySQL", "spawnApi"} => Before(i, "teardown") = 0

\* C20: in the gated variant MySQL is spawned only when the last login check
\* was true; a session makes at most three checks; and after a false
\* re-check (third check) the session is FAILED with no spawn, whatever
\* loginAzure resolved with.
C20_RecheckUnlocks ==
  gate =>
     /\ Len(checks) <= 3
     /\ Kills("spawnMySQL") > 0 =>
          Len(checks) \in {1, 3} /\ checks[Len(checks)]
     /\ (Len(checks) = 3 /\ ~checks[3]) =>
          pc = "failed" /\ Kills("spawnMySQL") = 0

C20_Witness ==
  checks = << FALSE, TRUE, FALSE >> /\ loginResult /\ pc = "failed"

====
